---- MODULE Spec2Model ----
(***************************************************************************)
(* A model of dlls/msvcrt/stubs.c: the NTDLL helpers RtlInitializeBitMap,  *)
(* RtlSetBits, RtlAreBitsSet, RtlAreBitsClear, RtlTimeToSecondsSince1970   *)
(* and NtQueryInformationFile with its per-class handlers.                 *)
(*                                                                         *)
(* Fixed-width C integers are kept at their width.  TLC's integers stop at *)
(* 2^31-1, so a ULONG is a sequence of 8 hexadecimal digits and an         *)
(* unsigned long long a sequence of 16, most significant digit first; the  *)
(* arithmetic below is the usual digit-by-digit arithmetic modulo 16^n.    *)
(***************************************************************************)
EXTENDS Integers, Sequences, FiniteSets, TLC

VARIABLES
    bitmap,      \* the RTL_BITMAP descriptor: SizeOfBitMap, Buffer
    mem,         \* the words around and in the caller's bitmap buffer
    mem0,        \* what the caller's buffer held when it was allocated
    covered,     \* history: the bits of every accepted RtlSetBits range
    bitCall,     \* the last bitmap call: its arguments, result and accesses
    timeCall,    \* the last RtlTimeToSecondsSince1970 call
    files,       \* the host's state of each open handle (cursor, metadata)
    fileCall     \* the last NtQueryInformationFile call

vars == <<bitmap, mem, mem0, covered, bitCall, timeCall, files, fileCall>>

bitVars == <<bitmap, mem, mem0, covered, bitCall>>
timeVars == <<timeCall>>
fileVars == <<files, fileCall>>

(***************************************************************************)
(* Unsigned fixed-width arithmetic on hexadecimal digit sequences.         *)
(***************************************************************************)
RECURSIVE NatOfInt(_, _)
NatOfInt(n, len) ==
    IF len = 0 THEN <<>> ELSE Append(NatOfInt(n \div 16, len - 1), n % 16)

U32(n) == NatOfInt(n, 8)

RECURSIVE IntOfNat(_)
IntOfNat(a) ==
    IF a = <<>> THEN 0 ELSE IntOfNat(SubSeq(a, 1, Len(a) - 1)) * 16 + a[Len(a)]

NatLess(a, b) ==
    \E i \in 1..Len(a) : a[i] < b[i] /\ \A j \in 1..(i - 1) : a[j] = b[j]

NatLeq(a, b) == ~NatLess(b, a)

RECURSIVE NatAddFrom(_, _, _, _)
NatAddFrom(a, b, i, carry) ==
    IF i = 0 THEN <<>>
    ELSE Append(NatAddFrom(a, b, i - 1, (a[i] + b[i] + carry) \div 16),
                (a[i] + b[i] + carry) % 16)

NatAdd(a, b) == NatAddFrom(a, b, Len(a), 0)

RECURSIVE NatSubFrom(_, _, _, _)
NatSubFrom(a, b, i, borrow) ==
    IF i = 0 THEN <<>>
    ELSE Append(NatSubFrom(a, b, i - 1, IF a[i] - b[i] - borrow < 0 THEN 1 ELSE 0),
                (a[i] - b[i] - borrow + 16) % 16)

NatSub(a, b) == NatSubFrom(a, b, Len(a), 0)

RECURSIVE NatMulFrom(_, _, _, _)
NatMulFrom(a, m, i, carry) ==
    IF i = 0 THEN <<>>
    ELSE Append(NatMulFrom(a, m, i - 1, (a[i] * m + carry) \div 16),
                (a[i] * m + carry) % 16)

NatMulSmall(a, m) == NatMulFrom(a, m, Len(a), 0)

RECURSIVE NatDivFrom(_, _, _, _)
NatDivFrom(a, d, i, rem) ==
    IF i > Len(a) THEN <<>>
    ELSE <<(rem * 16 + a[i]) \div d>> \o NatDivFrom(a, d, i + 1, (rem * 16 + a[i]) % d)

NatDivSmall(a, d) == NatDivFrom(a, d, 1, 0)

RECURSIVE NatModFrom(_, _, _, _)
NatModFrom(a, d, i, rem) ==
    IF i > Len(a) THEN rem ELSE NatModFrom(a, d, i + 1, (rem * 16 + a[i]) % d)

NatModSmall(a, d) == NatModFrom(a, d, 1, 0)

(***************************************************************************)
(* BitmapRunEngine.                                                        *)
(***************************************************************************)
MaxCap == 35

SmallCap == 3

BitsPerWord == 32

\* The caller allocates enough words for the largest capacity it declares.
BufferWords == (MaxCap + BitsPerWord - 1) \div BitsPerWord

\* Word addresses: Buffer[w] is the word at address w + 1, so the buffer is
\* the words 1..BufferWords, with one guard word of the caller's before it
\* (address 0) and one after it (address BufferWords + 1).
Addresses == 0..(BufferWords + 1)

BufferAddresses == 1..BufferWords

GuardWord == {1, 3, 5, 7, 24, 26, 28, 30}

ZeroBuffer == [a \in Addresses |->
                 IF a \in BufferAddresses THEN {} ELSE GuardWord]

DirtyBuffer == [a \in Addresses |->
                  IF a \in BufferAddresses THEN {0, 31} ELSE GuardWord]

U32Max == <<15, 15, 15, 15, 15, 15, 15, 15>>

\* The capacities a caller declares: none, one within the first word, one
\* that reaches into the second word.
Capacities == {U32(0), U32(SmallCap), U32(MaxCap)}

\* Starts and counts: the first bit, the last bit of the first word, the
\* last bit, one past it, and values whose 32-bit sum wraps around.
StartVals == {U32(0), U32(BitsPerWord - 1), U32(MaxCap - 1), U32(MaxCap), U32Max}

CountVals == {U32(0), U32(1), U32(2), U32(SmallCap), U32Max}

\* void RtlInitializeBitMap(PRTL_BITMAP bitmap, ULONG *buffer, ULONG size):
\* the descriptor after the call.  The buffer's words are not written.
RtlInitializeBitMap(bitmapPtr, bm, buffer, size) ==
    IF bitmapPtr = "NULL" THEN bm
    ELSE [SizeOfBitMap |-> size, Buffer |-> buffer]

\* bit / (sizeof(*bitmap->Buffer) * 8) and bit % (sizeof(*bitmap->Buffer) * 8)
WordOf(bit) == IntOfNat(NatDivSmall(bit, BitsPerWord))

BitOf(bit) == NatModSmall(bit, BitsPerWord)

\* The state an operation's loop threads through: the memory, the bit
\* indices it has accessed, and whether an access left the words modelled
\* here (an access far outside the caller's allocation).
Access(st, bit) ==
    [st EXCEPT !.touched = @ \cup {bit},
               !.wild = @ \/ (WordOf(bit) + 1 \notin Addresses)]

\* for (i = 0; i < count; ++i) Buffer[bit / 32] |= 1u << (bit % 32);
RECURSIVE SetBitsLoop_Assign(_, _, _, _)
SetBitsLoop_Assign(st, start, count, i) ==
    IF ~NatLess(U32(i), count) THEN st
    ELSE LET bit == NatAdd(start, U32(i))
             a == WordOf(bit) + 1
             st1 == Access(st, bit)
         IN  SetBitsLoop_Assign(
                 IF a \in Addresses
                 THEN [st1 EXCEPT !.mem[a] = {BitOf(bit)}]
                 ELSE st1,
                 start, count, i + 1)

RECURSIVE SetBitsLoop(_, _, _, _)
SetBitsLoop(st, start, count, i) ==
    IF ~NatLess(U32(i), count) THEN st
    ELSE LET bit == NatAdd(start, U32(i))
             a == WordOf(bit) + 1
             st1 == Access(st, bit)
         IN  SetBitsLoop(
                 IF a \in Addresses
                 THEN [st1 EXCEPT !.mem[a] = @ \cup {BitOf(bit)}]
                 ELSE st1,
                 start, count, i + 1)

RtlSetBits_OffByOne(bitmapPtr, bm, m, start, count) ==
    LET st == [mem |-> m, touched |-> {}, wild |-> FALSE, result |-> FALSE]
    IN  IF bitmapPtr = "NULL" \/ bm.Buffer = "NULL" \/ count = U32(0) THEN st
        ELSE IF \/ NatLeq(bm.SizeOfBitMap, start)
                \/ NatLess(NatAdd(NatSub(bm.SizeOfBitMap, start), U32(1)), count)
        THEN st
        ELSE SetBitsLoop(st, start, count, 0)

\* void RtlSetBits(PRTL_BITMAP bitmap, ULONG start, ULONG count)
RtlSetBits(bitmapPtr, bm, m, start, count) ==
    LET st == [mem |-> m, touched |-> {}, wild |-> FALSE, result |-> FALSE]
    IN  IF bitmapPtr = "NULL" \/ bm.Buffer = "NULL" \/ count = U32(0) THEN st
        ELSE IF \/ NatLeq(bm.SizeOfBitMap, start)
                \/ NatLess(NatSub(bm.SizeOfBitMap, start), count)
        THEN st
        ELSE SetBitsLoop(st, start, count, 0)

\* Buffer[bit / 32] & (1u << (bit % 32)).  A read outside the words
\* modelled here yields whatever that memory holds: wildWord.
TestBit(m, bit, wildWord) ==
    LET a == WordOf(bit) + 1
    IN  BitOf(bit) \in (IF a \in Addresses THEN m[a] ELSE wildWord)

RECURSIVE AreBitsSetLoop_Inclusive(_, _, _, _, _)
AreBitsSetLoop_Inclusive(st, start, count, i, wildWord) ==
    IF NatLess(count, U32(i)) THEN [st EXCEPT !.result = TRUE]
    ELSE LET bit == NatAdd(start, U32(i))
             st1 == Access(st, bit)
         IN  IF ~TestBit(st.mem, bit, wildWord)
             THEN [st1 EXCEPT !.result = FALSE]
             ELSE AreBitsSetLoop_Inclusive(st1, start, count, i + 1, wildWord)

\* for (i = 0; i < count; ++i) if (!(Buffer[bit / 32] & ...)) return FALSE;
RECURSIVE AreBitsSetLoop(_, _, _, _, _)
AreBitsSetLoop(st, start, count, i, wildWord) ==
    IF ~NatLess(U32(i), count) THEN [st EXCEPT !.result = TRUE]
    ELSE LET bit == NatAdd(start, U32(i))
             st1 == Access(st, bit)
         IN  IF ~TestBit(st.mem, bit, wildWord)
             THEN [st1 EXCEPT !.result = FALSE]
             ELSE AreBitsSetLoop(st1, start, count, i + 1, wildWord)

\* BOOLEAN RtlAreBitsSet(const RTL_BITMAP *bitmap, ULONG start, ULONG count)
RtlAreBitsSet(bitmapPtr, bm, m, start, count, wildWord) ==
    LET st == [mem |-> m, touched |-> {}, wild |-> FALSE, result |-> FALSE]
    IN  IF bitmapPtr = "NULL" \/ bm.Buffer = "NULL" \/ count = U32(0) THEN st
        ELSE IF \/ NatLeq(bm.SizeOfBitMap, start)
                \/ NatLess(NatSub(bm.SizeOfBitMap, start), count)
        THEN st
        ELSE AreBitsSetLoop(st, start, count, 0, wildWord)

\* for (i = 0; i < count; ++i) if (Buffer[bit / 32] & ...) return FALSE;
RECURSIVE AreBitsClearLoop(_, _, _, _, _)
AreBitsClearLoop(st, start, count, i, wildWord) ==
    IF ~NatLess(U32(i), count) THEN [st EXCEPT !.result = TRUE]
    ELSE LET bit == NatAdd(start, U32(i))
             st1 == Access(st, bit)
         IN  IF TestBit(st.mem, bit, wildWord)
             THEN [st1 EXCEPT !.result = FALSE]
             ELSE AreBitsClearLoop(st1, start, count, i + 1, wildWord)

\* BOOLEAN RtlAreBitsClear(const RTL_BITMAP *bitmap, ULONG start, ULONG count)
RtlAreBitsClear(bitmapPtr, bm, m, start, count, wildWord) ==
    LET st == [mem |-> m, touched |-> {}, wild |-> FALSE, result |-> FALSE]
    IN  IF bitmapPtr = "NULL" \/ bm.Buffer = "NULL" \/ count = U32(0) THEN st
        ELSE IF \/ NatLeq(bm.SizeOfBitMap, start)
                \/ NatLess(NatSub(bm.SizeOfBitMap, start), count)
        THEN st
        ELSE AreBitsClearLoop(st, start, count, 0, wildWord)

\* The bits [start, start + count) of a range within a capacity this small.
RangeBits(start, count) ==
    {b \in 0..(BufferWords * BitsPerWord - 1) :
        /\ IntOfNat(start) <= b
        /\ b < IntOfNat(start) + IntOfNat(count)}

\* start + count as a mathematical sum: one digit wider than a ULONG.
WideSum(a, b) == NatAdd(<<0>> \o a, <<0>> \o b)

\* The ranges the contract accepts: count > 0, start < C, start + count <= C.
InRange(size, start, count) ==
    /\ count # U32(0)
    /\ NatLess(start, size)
    /\ NatLeq(WideSum(start, count), <<0>> \o size)

\* The arguments of a range call: every start and count on the descriptor,
\* and a call that passes no descriptor at all.
BitArgs ==
    {<<"desc", start, count>> : start \in StartVals, count \in CountVals}
        \cup {<<"NULL", U32(0), U32(1)>>}

\* A read outside the words modelled here may find any value there: the
\* call has the outcome for a word of zeros and the one for a word of ones.
AllOnes == 0..(BitsPerWord - 1)

WildOutcomes(st0, st1) == IF st0.wild THEN {st0, st1} ELSE {st0}

BitCallOf(op, bitmapPtr, start, count, st, before) ==
    [op |-> op, bitmap |-> bitmapPtr, start |-> start, count |-> count,
     result |-> st.result, touched |-> st.touched, wild |-> st.wild,
     before |-> before]

NoAccess == [result |-> FALSE, touched |-> {}, wild |-> FALSE]

(***************************************************************************)
(* TimeConversionUtility.                                                  *)
(***************************************************************************)
Zero32 == <<0, 0, 0, 0, 0, 0, 0, 0>>

\* (unsigned long long)x of a 32-bit x
Widen(x) == Zero32 \o x

\* x << 32 on an unsigned long long
ShiftLeft32(x) == SubSeq(x, 9, 16) \o Zero32

\* (ULONG)x of an unsigned long long
Truncate32(x) == SubSeq(x, 9, 16)

DigitOr(x, y) ==
    LET b(k) == IF ((x \div (2 ^ k)) % 2 = 1) \/ ((y \div (2 ^ k)) % 2 = 1)
                THEN 2 ^ k ELSE 0
    IN  b(0) + b(1) + b(2) + b(3)

\* x | y
BitOr(x, y) == [i \in 1..Len(x) |-> DigitOr(x[i], y[i])]

\* (unsigned long)h of a LONG h: the value modulo 2^32
LongToULong(h) == IF h >= 0 THEN U32(h) ELSE NatSub(Zero32, U32(-h))

\* const unsigned long long epoch_difference = 11644473600ULL (0x2B6109100)
epoch_difference == <<0, 0, 0, 0, 0, 0, 0, 2, 11, 6, 1, 0, 9, 1, 0, 0>>

ticks_per_second == 10000000

epoch_ticks == NatMulSmall(epoch_difference, ticks_per_second)

\* 0xFFFFFFFFULL
Max32In64 == Widen(U32Max)

RtlTimeToSecondsSince1970_NoRangeCheck(timePtr, time, resultPtr, before) ==
    IF timePtr = "NULL" \/ resultPtr = "NULL" THEN [ret |-> FALSE, result |-> before]
    ELSE LET ticks == BitOr(Widen(time.LowPart),
                            ShiftLeft32(Widen(LongToULong(time.HighPart))))
         IN  IF NatLess(ticks, epoch_ticks) THEN [ret |-> FALSE, result |-> before]
             ELSE [ret |-> TRUE,
                   result |-> Truncate32(NatDivSmall(NatSub(ticks, epoch_ticks),
                                                     ticks_per_second))]

RtlTimeToSecondsSince1970_EpochExcluded(timePtr, time, resultPtr, before) ==
    IF timePtr = "NULL" \/ resultPtr = "NULL" THEN [ret |-> FALSE, result |-> before]
    ELSE LET ticks == BitOr(Widen(time.LowPart),
                            ShiftLeft32(Widen(LongToULong(time.HighPart))))
         IN  IF NatLeq(ticks, epoch_ticks) THEN [ret |-> FALSE, result |-> before]
             ELSE LET seconds == NatDivSmall(NatSub(ticks, epoch_ticks), ticks_per_second)
                  IN  IF NatLess(Max32In64, seconds)
                      THEN [ret |-> FALSE, result |-> before]
                      ELSE [ret |-> TRUE, result |-> Truncate32(seconds)]

\* BOOLEAN RtlTimeToSecondsSince1970(const LARGE_INTEGER *time, LPDWORD result):
\* the return value and what *result holds after the call (before: what it
\* held before it).
RtlTimeToSecondsSince1970(timePtr, time, resultPtr, before) ==
    IF timePtr = "NULL" \/ resultPtr = "NULL" THEN [ret |-> FALSE, result |-> before]
    ELSE LET ticks == BitOr(Widen(time.LowPart),
                            ShiftLeft32(Widen(LongToULong(time.HighPart))))
         IN  IF NatLess(ticks, epoch_ticks) THEN [ret |-> FALSE, result |-> before]
             ELSE LET seconds == NatDivSmall(NatSub(ticks, epoch_ticks), ticks_per_second)
                  IN  IF NatLess(Max32In64, seconds)
                      THEN [ret |-> FALSE, result |-> before]
                      ELSE [ret |-> TRUE, result |-> Truncate32(seconds)]

\* LowPart values: 0, the low word of the epoch threshold 0x019DB1DED53E8000
\* and its neighbours, the same one second later and its predecessor, and
\* the largest word.
LowParts ==
    {Zero32,
     <<13, 5, 3, 14, 7, 15, 15, 15>>, <<13, 5, 3, 14, 8, 0, 0, 0>>,
     <<13, 5, 3, 14, 8, 0, 0, 1>>,
     <<13, 5, 13, 7, 1, 6, 7, 15>>, <<13, 5, 13, 7, 1, 6, 8, 0>>,
     U32Max}

\* HighPart values (a LONG): 0, the high word of the epoch threshold
\* (0x019DB1DE) and its neighbours, the high word of the first tick whose
\* seconds exceed 32 bits (0x0236485E) and its predecessor, the largest
\* LONG, and negative values.
HighParts ==
    {0, 27111901, 27111902, 27111903, 37111901, 37111902, 2147483647, -1,
     -2147483647}

\* The time argument: a pointer to every LARGE_INTEGER above, or no pointer.
TimeArgs ==
    {<<"time", [LowPart |-> lo, HighPart |-> hi]>> : lo \in LowParts, hi \in HighParts}
        \cup {<<"NULL", [LowPart |-> Zero32, HighPart |-> 0]>>}

\* What the caller's DWORD holds before the call.
ResultBefore == {Zero32, <<13, 14, 10, 13, 11, 14, 14, 15>>}

NoTimeCall == [op |-> "none", timePtr |-> "NULL",
               time |-> [LowPart |-> Zero32, HighPart |-> 0], resultPtr |-> "NULL",
               before |-> Zero32, result |-> Zero32, ret |-> FALSE]

TimeIdle == timeCall = NoTimeCall

(***************************************************************************)
(* StatusTranslator and FileInfoQueryEngine.                               *)
(*                                                                         *)
(* The host calls (GetFileInformationByHandleEx, GetFileInformationByHandle,*)
(* SetFilePointerEx) are the environment.  A host call is the set of the   *)
(* answers the host may give, so a handler is the set of the outcomes it   *)
(* may have, and a step takes one of them.  A failed host call reports a   *)
(* non-zero error through GetLastError.                                    *)
(***************************************************************************)
\* NTSTATUS status_from_win32_error(DWORD error)
status_from_win32_error(error) ==
    CASE error = "ERROR_SUCCESS" -> "STATUS_SUCCESS"
      [] error = "ERROR_INVALID_HANDLE" -> "STATUS_INVALID_HANDLE"
      [] error = "ERROR_ACCESS_DENIED" -> "STATUS_ACCESS_DENIED"
      [] error = "ERROR_FILE_NOT_FOUND" -> "STATUS_OBJECT_NAME_NOT_FOUND"
      [] error = "ERROR_PATH_NOT_FOUND" -> "STATUS_OBJECT_PATH_NOT_FOUND"
      [] error = "ERROR_NOT_ENOUGH_MEMORY" -> "STATUS_INSUFFICIENT_RESOURCES"
      [] error = "ERROR_INVALID_PARAMETER" -> "STATUS_INVALID_PARAMETER"
      [] error \in {"ERROR_MORE_DATA", "ERROR_BUFFER_OVERFLOW"} -> "STATUS_BUFFER_OVERFLOW"
      [] error = "ERROR_NOT_SUPPORTED" -> "STATUS_NOT_SUPPORTED"
      [] error = "ERROR_SHARING_VIOLATION" -> "STATUS_SHARING_VIOLATION"
      [] error = "ERROR_PRIVILEGE_NOT_HELD" -> "STATUS_PRIVILEGE_NOT_HELD"
      [] error = "ERROR_INVALID_FUNCTION" -> "STATUS_INVALID_DEVICE_REQUEST"
      [] error = "ERROR_CALL_NOT_IMPLEMENTED" -> "STATUS_NOT_IMPLEMENTED"
      [] OTHER -> "STATUS_UNSUCCESSFUL"

should_fallback_to_legacy_file_info_AccessDenied(error) ==
    \/ error = "ERROR_CALL_NOT_IMPLEMENTED"
    \/ error = "ERROR_INVALID_FUNCTION"
    \/ error = "ERROR_ACCESS_DENIED"

\* BOOL should_fallback_to_legacy_file_info(DWORD error)
should_fallback_to_legacy_file_info(error) ==
    \/ error = "ERROR_CALL_NOT_IMPLEMENTED"
    \/ error = "ERROR_INVALID_FUNCTION"
    \/ error = "ERROR_NOT_SUPPORTED"

\* (LONG)d of a DWORD d: the same 32 bits read as a signed value
ULongToLong(d) == IF d[1] >= 8 THEN 0 - IntOfNat(NatSub(Zero32, d)) ELSE IntOfNat(d)

\* LARGE_INTEGER filetime_to_large(const FILETIME *ft)
filetime_to_large(ft) ==
    [LowPart |-> ft.dwLowDateTime, HighPart |-> ULongToLong(ft.dwHighDateTime)]

SizeofULong == 4

SizeofBasic == 40

SizeofStandard == 24

SizeofPosition == 8

SizeofAttributeTag == 8

MaxNameChars == 3

Handles == {"h1", "h2"}

\* Where a handle's file pointer may stand.
Cursors == {0, 42}

InformationClasses ==
    {"FileBasicInformation", "FileStandardInformation", "FilePositionInformation",
     "FileNameInformation", "FileAttributeTagInformation", "FileInternalInformation"}

\* The full length in bytes of a handle's name: one WCHAR, or MaxNameChars.
NameLengths == {2, 2 * MaxNameChars}

\* sizeof of the structure of a class; the length prefix for a name; the
\* largest of them for a class that has no handler.
SizeofClass(information_class) ==
    CASE information_class = "FileBasicInformation" -> SizeofBasic
      [] information_class = "FileStandardInformation" -> SizeofStandard
      [] information_class = "FilePositionInformation" -> SizeofPosition
      [] information_class = "FileAttributeTagInformation" -> SizeofAttributeTag
      [] information_class = "FileNameInformation" -> SizeofULong
      [] OTHER -> SizeofBasic

\* The buffer lengths a caller passes for a class: one byte short, exact,
\* and for a name also one byte short of and exactly the longest name.
LengthsOf(information_class) ==
    {SizeofClass(information_class) - 1, SizeofClass(information_class)}
        \cup (IF information_class = "FileNameInformation"
              THEN {SizeofULong + 2 * MaxNameChars - 1, SizeofULong + 2 * MaxNameChars}
              ELSE {})

\* The errors a failing host call reports: the three that mean the call is
\* unavailable, a terminal one, the overflow ones, and one the translation
\* table does not list.
HostErrors ==
    {"ERROR_CALL_NOT_IMPLEMENTED", "ERROR_INVALID_FUNCTION", "ERROR_NOT_SUPPORTED",
     "ERROR_ACCESS_DENIED", "ERROR_MORE_DATA", "ERROR_GEN_FAILURE"}

NameErrors == {"ERROR_MORE_DATA", "ERROR_BUFFER_OVERFLOW", "ERROR_ACCESS_DENIED",
               "ERROR_INSUFFICIENT_BUFFER"}

NoData == [none |-> TRUE]

Succeeds(data) == [ok |-> TRUE, error |-> "ERROR_SUCCESS", data |-> data]

Fails(error, data) == [ok |-> FALSE, error |-> error, data |-> data]

\* Timestamps as the host reports them.
Time2001 == [LowPart |-> <<13, 5, 3, 14, 8, 0, 0, 1>>, HighPart |-> 29111902]

Time2020 == [LowPart |-> <<0, 0, 15, 15, 0, 0, 1, 0>>, HighPart |-> 30811902]

Time2024 == [LowPart |-> U32Max, HighPart |-> 31111902]

FileTime2001 == [dwLowDateTime |-> <<13, 5, 3, 14, 8, 0, 0, 1>>,
                 dwHighDateTime |-> U32(29111902)]

FileTime2020 == [dwLowDateTime |-> <<0, 0, 15, 15, 0, 0, 1, 0>>,
                 dwHighDateTime |-> U32(30811902)]

\* A timestamp whose high word has its top bit set.
FileTimeFar == [dwLowDateTime |-> U32Max,
                dwHighDateTime |-> <<8, 0, 0, 0, 0, 0, 1, 0>>]

\* FILE_ATTRIBUTE_READONLY | FILE_ATTRIBUTE_ARCHIVE, FILE_ATTRIBUTE_DIRECTORY,
\* FILE_ATTRIBUTE_DIRECTORY | FILE_ATTRIBUTE_REPARSE_POINT
AttrFile == U32(33)

AttrDirectory == U32(16)

AttrJunction == U32(1040)

\* IO_REPARSE_TAG_MOUNT_POINT (0xA0000003)
ReparseMountPoint == <<10, 0, 0, 0, 0, 0, 0, 3>>

Size42 == [LowPart |-> U32(42), HighPart |-> 0]

Size4096 == [LowPart |-> U32(4096), HighPart |-> 0]

Size0 == [LowPart |-> Zero32, HighPart |-> 0]

\* What GetFileInformationByHandleEx returns for each class when it succeeds.
ModernData(information_class) ==
    CASE information_class = "FileBasicInformation" ->
            {[CreationTime |-> Time2001, LastAccessTime |-> Time2024,
              LastWriteTime |-> Time2020, ChangeTime |-> Time2024,
              FileAttributes |-> AttrFile],
             [CreationTime |-> Time2020, LastAccessTime |-> Time2020,
              LastWriteTime |-> Time2020, ChangeTime |-> Time2020,
              FileAttributes |-> AttrDirectory]}
      [] information_class = "FileStandardInformation" ->
            {[AllocationSize |-> Size4096, EndOfFile |-> Size42, NumberOfLinks |-> U32(3),
              DeletePending |-> FALSE, Directory |-> FALSE],
             [AllocationSize |-> Size0, EndOfFile |-> Size0, NumberOfLinks |-> U32(1),
              DeletePending |-> TRUE, Directory |-> TRUE]}
      [] information_class = "FileAttributeTagInformation" ->
            {[FileAttributes |-> AttrFile, ReparseTag |-> Zero32],
             [FileAttributes |-> AttrJunction, ReparseTag |-> ReparseMountPoint]}
      [] OTHER -> {}

\* What GetFileInformationByHandle returns when it succeeds: a 42-byte file
\* with 3 links, a directory, and a file of more than 4 GB.
LegacyData ==
    {[dwFileAttributes |-> AttrFile, ftCreationTime |-> FileTime2001,
      ftLastAccessTime |-> FileTime2020, ftLastWriteTime |-> FileTime2020,
      nFileSizeHigh |-> Zero32, nFileSizeLow |-> U32(42), nNumberOfLinks |-> U32(3)],
     [dwFileAttributes |-> AttrJunction, ftCreationTime |-> FileTime2020,
      ftLastAccessTime |-> FileTime2020, ftLastWriteTime |-> FileTimeFar,
      nFileSizeHigh |-> Zero32, nFileSizeLow |-> Zero32, nNumberOfLinks |-> U32(1)],
     [dwFileAttributes |-> AttrFile, ftCreationTime |-> FileTime2001,
      ftLastAccessTime |-> FileTime2001, ftLastWriteTime |-> FileTime2001,
      nFileSizeHigh |-> U32(5), nFileSizeLow |-> U32Max, nNumberOfLinks |-> U32(1)]}

InvalidHandle == {Fails("ERROR_INVALID_HANDLE", NoData)}

\* GetFileInformationByHandleEx(handle, FileBasicInfo | FileStandardInfo |
\* FileAttributeTagInfo, &local, sizeof(local)): the answers the host may give.
GetFileInformationByHandleEx(handle, information_class) ==
    IF handle = "NULL" THEN InvalidHandle
    ELSE {Succeeds(d) : d \in ModernData(information_class)}
            \cup {Fails(e, NoData) : e \in HostErrors}

\* GetFileInformationByHandle(handle, &bhfi): the answers the host may give.
GetFileInformationByHandle(handle) ==
    IF handle = "NULL" THEN InvalidHandle
    ELSE {Succeeds(d) : d \in LegacyData} \cup {Fails(e, NoData) : e \in HostErrors}

\* SetFilePointerEx(handle, distance, &current, method): the answers the host
\* may give; when it succeeds it has moved the handle's cursor and reports
\* the new position.
SetFilePointerEx(handle, cursor, distance, method) ==
    IF handle = "NULL" THEN InvalidHandle
    ELSE {Succeeds([position |-> CASE method = "FILE_BEGIN" -> distance
                                   [] method = "FILE_CURRENT" -> cursor + distance
                                   [] OTHER -> cursor])}
            \cup {Fails(e, NoData) : e \in HostErrors}

\* GetFileInformationByHandleEx(handle, FileNameInfo, win_info, length): the
\* answers the host may give.  It succeeds only when the name fits, and a
\* failure leaves in the length prefix the full length, the truncated
\* length or nothing.
GetFileNameInfo(handle, length) ==
    IF handle = "NULL" THEN {Fails("ERROR_INVALID_HANDLE",
                                   [FullLength |-> 0, prefix |-> "untouched"])}
    ELSE
    {Succeeds([FullLength |-> n, prefix |-> "full"]) :
        n \in {m \in NameLengths : SizeofULong + m <= length}}
    \cup {Fails(e, [FullLength |-> n, prefix |-> w]) :
            e \in NameErrors, n \in NameLengths,
            w \in {"full", "truncated", "untouched"}}

\* One host call as the handler saw it: the function called, whether it
\* succeeded, GetLastError() after it, and the data it returned.
HostCall(api, answer) ==
    [api |-> api, ok |-> answer.ok, error |-> answer.error, data |-> answer.data]

\* A handler's outcome: its status, the host calls it made in order, and
\* what the caller's structure holds after it.
Outcome(status, calls, info) == [status |-> status, calls |-> calls, info |-> info]

query_basic_information_ChangeFromCreation(handle, info) ==
    UNION {
        LET modern == HostCall("GetFileInformationByHandleEx", m)
            basic == m.data
        IN  IF m.ok
            THEN {Outcome("STATUS_SUCCESS", <<modern>>,
                         [CreationTime |-> basic.CreationTime,
                          LastAccessTime |-> basic.LastAccessTime,
                          LastWriteTime |-> basic.LastWriteTime,
                          ChangeTime |-> basic.ChangeTime,
                          FileAttributes |-> basic.FileAttributes])}
            ELSE IF ~should_fallback_to_legacy_file_info(m.error)
            THEN {Outcome(status_from_win32_error(m.error), <<modern>>, info)}
            ELSE {LET legacy == HostCall("GetFileInformationByHandle", l)
                      bhfi == l.data
                  IN  IF ~l.ok
                      THEN Outcome(status_from_win32_error(l.error),
                                   <<modern, legacy>>, info)
                      ELSE LET LastWriteTime == filetime_to_large(bhfi.ftLastWriteTime)
                           IN
                           Outcome("STATUS_SUCCESS", <<modern, legacy>>,
                                   [CreationTime |-> filetime_to_large(bhfi.ftCreationTime),
                                    LastAccessTime |-> filetime_to_large(bhfi.ftLastAccessTime),
                                    LastWriteTime |-> LastWriteTime,
                                    ChangeTime |-> filetime_to_large(bhfi.ftCreationTime),
                                    FileAttributes |-> bhfi.dwFileAttributes])
                  : l \in GetFileInformationByHandle(handle)}
        : m \in GetFileInformationByHandleEx(handle, "FileBasicInformation")}

\* NTSTATUS query_basic_information(HANDLE handle, FILE_BASIC_INFORMATION *info)
query_basic_information(handle, info) ==
    UNION {
        LET modern == HostCall("GetFileInformationByHandleEx", m)
            basic == m.data
        IN  IF m.ok
            THEN {Outcome("STATUS_SUCCESS", <<modern>>,
                         [CreationTime |-> basic.CreationTime,
                          LastAccessTime |-> basic.LastAccessTime,
                          LastWriteTime |-> basic.LastWriteTime,
                          ChangeTime |-> basic.ChangeTime,
                          FileAttributes |-> basic.FileAttributes])}
            ELSE IF ~should_fallback_to_legacy_file_info(m.error)
            THEN {Outcome(status_from_win32_error(m.error), <<modern>>, info)}
            ELSE {LET legacy == HostCall("GetFileInformationByHandle", l)
                      bhfi == l.data
                  IN  IF ~l.ok
                      THEN Outcome(status_from_win32_error(l.error),
                                   <<modern, legacy>>, info)
                      ELSE LET LastWriteTime == filetime_to_large(bhfi.ftLastWriteTime)
                           IN
                           Outcome("STATUS_SUCCESS", <<modern, legacy>>,
                                   [CreationTime |-> filetime_to_large(bhfi.ftCreationTime),
                                    LastAccessTime |-> filetime_to_large(bhfi.ftLastAccessTime),
                                    LastWriteTime |-> LastWriteTime,
                                    ChangeTime |-> LastWriteTime,
                                    FileAttributes |-> bhfi.dwFileAttributes])
                  : l \in GetFileInformationByHandle(handle)}
        : m \in GetFileInformationByHandleEx(handle, "FileBasicInformation")}

\* FILE_ATTRIBUTE_DIRECTORY (0x10)
FILE_ATTRIBUTE_DIRECTORY == U32(16)

DigitAnd(x, y) ==
    LET b(k) == IF ((x \div (2 ^ k)) % 2 = 1) /\ ((y \div (2 ^ k)) % 2 = 1)
                THEN 2 ^ k ELSE 0
    IN  b(0) + b(1) + b(2) + b(3)

\* x & y
BitAnd(x, y) == [i \in 1..Len(x) |-> DigitAnd(x[i], y[i])]

\* NTSTATUS query_standard_information(HANDLE handle, FILE_STANDARD_INFORMATION *info)
query_standard_information(handle, info) ==
    UNION {
        LET modern == HostCall("GetFileInformationByHandleEx", m)
            standard_info == m.data
        IN  IF m.ok
            THEN {Outcome("STATUS_SUCCESS", <<modern>>,
                         [AllocationSize |-> standard_info.AllocationSize,
                          EndOfFile |-> standard_info.EndOfFile,
                          NumberOfLinks |-> standard_info.NumberOfLinks,
                          DeletePending |-> standard_info.DeletePending,
                          Directory |-> standard_info.Directory])}
            ELSE IF ~should_fallback_to_legacy_file_info(m.error)
            THEN {Outcome(status_from_win32_error(m.error), <<modern>>, info)}
            ELSE {LET legacy == HostCall("GetFileInformationByHandle", l)
                      bhfi == l.data
                  IN  IF ~l.ok
                      THEN Outcome(status_from_win32_error(l.error),
                                   <<modern, legacy>>, info)
                      ELSE LET AllocationSize ==
                                   [LowPart |-> bhfi.nFileSizeLow,
                                    HighPart |-> ULongToLong(bhfi.nFileSizeHigh)]
                           IN
                           Outcome("STATUS_SUCCESS", <<modern, legacy>>,
                                   [AllocationSize |-> AllocationSize,
                                    EndOfFile |-> AllocationSize,
                                    NumberOfLinks |-> bhfi.nNumberOfLinks,
                                    DeletePending |-> FALSE,
                                    Directory |-> BitAnd(bhfi.dwFileAttributes,
                                                         FILE_ATTRIBUTE_DIRECTORY) # Zero32])
                  : l \in GetFileInformationByHandle(handle)}
        : m \in GetFileInformationByHandleEx(handle, "FileStandardInformation")}

\* NTSTATUS query_attribute_tag_information(HANDLE handle,
\*                                          FILE_ATTRIBUTE_TAG_INFORMATION *info)
query_attribute_tag_information(handle, info) ==
    UNION {
        LET modern == HostCall("GetFileInformationByHandleEx", m)
            tag_info == m.data
        IN  IF m.ok
            THEN {Outcome("STATUS_SUCCESS", <<modern>>,
                         [FileAttributes |-> tag_info.FileAttributes,
                          ReparseTag |-> tag_info.ReparseTag])}
            ELSE IF ~should_fallback_to_legacy_file_info(m.error)
            THEN {Outcome(status_from_win32_error(m.error), <<modern>>, info)}
            ELSE {LET legacy == HostCall("GetFileInformationByHandle", l)
                      bhfi == l.data
                  IN  IF ~l.ok
                      THEN Outcome(status_from_win32_error(l.error),
                                   <<modern, legacy>>, info)
                      ELSE Outcome("STATUS_SUCCESS", <<modern, legacy>>,
                                   [FileAttributes |-> bhfi.dwFileAttributes, ReparseTag |-> Zero32])
                  : l \in GetFileInformationByHandle(handle)}
        : m \in GetFileInformationByHandleEx(handle, "FileAttributeTagInformation")}

query_position_information_FromBegin(handle, info, cursor) ==
    {LET seek == HostCall("SetFilePointerEx", s)
     IN  IF ~s.ok
         THEN [status |-> status_from_win32_error(s.error), calls |-> <<seek>>,
               info |-> info, cursor |-> cursor]
         ELSE [status |-> "STATUS_SUCCESS", calls |-> <<seek>>,
               info |-> [CurrentByteOffset |-> s.data.position],
               cursor |-> s.data.position]
     : s \in SetFilePointerEx(handle, cursor, 0, "FILE_BEGIN")}

\* NTSTATUS query_position_information(HANDLE handle, FILE_POSITION_INFORMATION *info):
\* cursor is the handle's file pointer before the call, and in the outcome
\* after it.
query_position_information(handle, info, cursor) ==
    {LET seek == HostCall("SetFilePointerEx", s)
     IN  IF ~s.ok
         THEN [status |-> status_from_win32_error(s.error), calls |-> <<seek>>,
               info |-> info, cursor |-> cursor]
         ELSE [status |-> "STATUS_SUCCESS", calls |-> <<seek>>,
               info |-> [CurrentByteOffset |-> s.data.position],
               cursor |-> s.data.position]
     : s \in SetFilePointerEx(handle, cursor, 0, "FILE_CURRENT")}

\* What the caller's buffer holds after the host's FileNameInfo query, which
\* writes into it directly (win_info aliases info).  The host knows the
\* name's full length in bytes (data.FullLength).  On success it stored the
\* length and the whole name.  On failure it stored what fits of the name
\* and the full length (data.prefix = "full"), or what fits and the length
\* of that part ("truncated"), or nothing at all ("untouched"), in which
\* case the buffer still holds the caller's bytes.
NameBufferAfter(info, length, answer) ==
    LET fits == IF length - SizeofULong < answer.data.FullLength
                THEN length - SizeofULong ELSE answer.data.FullLength
    IN  IF answer.ok
        THEN [FileNameLength |-> answer.data.FullLength,
              FileNameBytes |-> answer.data.FullLength]
        ELSE CASE answer.data.prefix = "full" ->
                    [FileNameLength |-> answer.data.FullLength, FileNameBytes |-> fits]
               [] answer.data.prefix = "truncated" ->
                    [FileNameLength |-> fits, FileNameBytes |-> fits]
               [] OTHER -> info

\* NTSTATUS query_name_information(HANDLE handle, FILE_NAME_INFORMATION *info,
\*                                 ULONG length, ULONG *written)
query_name_information(handle, info, length) ==
    {LET name == HostCall("GetFileInformationByHandleEx", n)
         win_info == NameBufferAfter(info, length, n)
     IN  IF ~n.ok
         THEN LET status == status_from_win32_error(n.error)
              IN  [status |-> status, calls |-> <<name>>, info |-> win_info,
                   written |-> IF status = "STATUS_BUFFER_OVERFLOW"
                                    /\ length >= SizeofULong
                               THEN SizeofULong + win_info.FileNameLength
                               ELSE 0]
         ELSE [status |-> "STATUS_SUCCESS", calls |-> <<name>>, info |-> win_info,
               written |-> IF length >= SizeofULong
                           THEN SizeofULong + win_info.FileNameLength
                           ELSE 0]
     : n \in GetFileNameInfo(handle, length)}

NtQueryInformationFile_NoHandleCheck(handle, ioPtr, io, buffer, info, length, information_class, cursor) ==
    LET none == [status |-> "STATUS_INVALID_PARAMETER", info |-> info, calls |-> <<>>,
                 cursor |-> cursor, Information |-> 0]
        mismatch == {[none EXCEPT !.status = "STATUS_INFO_LENGTH_MISMATCH"]}
        fixed(q, size) ==
            [status |-> q.status, info |-> q.info, calls |-> q.calls, cursor |-> cursor,
             Information |-> IF q.status = "STATUS_SUCCESS" THEN size ELSE 0]
        dispatch ==
            CASE information_class = "FileBasicInformation" ->
                    IF length < SizeofBasic THEN mismatch
                    ELSE {fixed(q, SizeofBasic) :
                            q \in query_basic_information(handle, info)}
              [] information_class = "FileStandardInformation" ->
                    IF length < SizeofStandard THEN mismatch
                    ELSE {fixed(q, SizeofStandard) :
                            q \in query_standard_information(handle, info)}
              [] information_class = "FilePositionInformation" ->
                    IF length < SizeofPosition THEN mismatch
                    ELSE {[fixed(q, SizeofPosition) EXCEPT !.cursor = q.cursor] :
                            q \in query_position_information(handle, info, cursor)}
              [] information_class = "FileNameInformation" ->
                    IF length < SizeofULong THEN mismatch
                    ELSE {[fixed(q, 0) EXCEPT !.Information = q.written] :
                            q \in query_name_information(handle, info, length)}
              [] information_class = "FileAttributeTagInformation" ->
                    IF length < SizeofAttributeTag THEN mismatch
                    ELSE {fixed(q, SizeofAttributeTag) :
                            q \in query_attribute_tag_information(handle, info)}
              [] OTHER -> {[none EXCEPT !.status = "STATUS_INVALID_INFO_CLASS"]}
    IN  IF ioPtr = "NULL"
        THEN {[ret |-> "STATUS_INVALID_PARAMETER", io |-> io, info |-> info,
               calls |-> <<>>, cursor |-> cursor]}
        ELSE IF buffer = "NULL"
        THEN {[ret |-> "STATUS_INVALID_PARAMETER",
               io |-> [Status |-> "STATUS_INVALID_PARAMETER", Information |-> 0],
               info |-> info, calls |-> <<>>, cursor |-> cursor]}
        ELSE {[ret |-> r.status,
               io |-> [Status |-> r.status, Information |-> r.Information],
               info |-> r.info, calls |-> r.calls, cursor |-> r.cursor] :
                r \in dispatch}

\* NTSTATUS NtQueryInformationFile(HANDLE handle, IO_STATUS_BLOCK *io, void *buffer,
\*                                 ULONG length, FILE_INFORMATION_CLASS information_class):
\* io and info are what the status block and the buffer hold before the
\* call, cursor the handle's file pointer; an outcome is the return value
\* and what they hold after it, with the host calls made in order.
NtQueryInformationFile(handle, ioPtr, io, buffer, info, length, information_class, cursor) ==
    LET none == [status |-> "STATUS_INVALID_PARAMETER", info |-> info, calls |-> <<>>,
                 cursor |-> cursor, Information |-> 0]
        mismatch == {[none EXCEPT !.status = "STATUS_INFO_LENGTH_MISMATCH"]}
        fixed(q, size) ==
            [status |-> q.status, info |-> q.info, calls |-> q.calls, cursor |-> cursor,
             Information |-> IF q.status = "STATUS_SUCCESS" THEN size ELSE 0]
        dispatch ==
            CASE information_class = "FileBasicInformation" ->
                    IF length < SizeofBasic THEN mismatch
                    ELSE {fixed(q, SizeofBasic) :
                            q \in query_basic_information(handle, info)}
              [] information_class = "FileStandardInformation" ->
                    IF length < SizeofStandard THEN mismatch
                    ELSE {fixed(q, SizeofStandard) :
                            q \in query_standard_information(handle, info)}
              [] information_class = "FilePositionInformation" ->
                    IF length < SizeofPosition THEN mismatch
                    ELSE {[fixed(q, SizeofPosition) EXCEPT !.cursor = q.cursor] :
                            q \in query_position_information(handle, info, cursor)}
              [] information_class = "FileNameInformation" ->
                    IF length < SizeofULong THEN mismatch
                    ELSE {[fixed(q, 0) EXCEPT !.Information = q.written] :
                            q \in query_name_information(handle, info, length)}
              [] information_class = "FileAttributeTagInformation" ->
                    IF length < SizeofAttributeTag THEN mismatch
                    ELSE {fixed(q, SizeofAttributeTag) :
                            q \in query_attribute_tag_information(handle, info)}
              [] OTHER -> {[none EXCEPT !.status = "STATUS_INVALID_INFO_CLASS"]}
    IN  IF ioPtr = "NULL"
        THEN {[ret |-> "STATUS_INVALID_PARAMETER", io |-> io, info |-> info,
               calls |-> <<>>, cursor |-> cursor]}
        ELSE IF handle = "NULL" \/ buffer = "NULL"
        THEN {[ret |-> "STATUS_INVALID_PARAMETER",
               io |-> [Status |-> "STATUS_INVALID_PARAMETER", Information |-> 0],
               info |-> info, calls |-> <<>>, cursor |-> cursor]}
        ELSE {[ret |-> r.status,
               io |-> [Status |-> r.status, Information |-> r.Information],
               info |-> r.info, calls |-> r.calls, cursor |-> r.cursor] :
                r \in dispatch}

\* The caller's status block and buffer before the call: stale values.
StaleIo == [Status |-> "STATUS_PENDING", Information |-> 77]

StaleBuffer == [FileNameLength |-> 90, FileNameBytes |-> 0]

\* The arguments of a call: every handle, buffer, class and length with a
\* status block, and a call without one.
QueryArgs ==
    UNION {{[handle |-> h, ioPtr |-> "io", buffer |-> b, length |-> n,
             information_class |-> c] :
                h \in Handles \cup {"NULL"}, b \in {"NULL", "buf"}, n \in LengthsOf(c)} :
           c \in InformationClasses}
    \cup {[handle |-> "h1", ioPtr |-> "NULL", buffer |-> "buf", length |-> SizeofBasic,
           information_class |-> "FileBasicInformation"]}

NoFileCall == [op |-> "none", handle |-> "NULL", ioPtr |-> "NULL", buffer |-> "NULL",
               length |-> 0, information_class |-> "none",
               ret |-> "STATUS_PENDING", io |-> StaleIo, info |-> StaleBuffer,
               calls |-> <<>>, filesBefore |-> [h \in Handles |-> 0]]

FileIdle == files = [h \in Handles |-> 0] /\ fileCall = NoFileCall

BitInit ==
    /\ TimeIdle
    /\ FileIdle
    /\ bitmap = [SizeOfBitMap |-> U32(0), Buffer |-> "NULL"]
    /\ mem0 \in {ZeroBuffer, DirtyBuffer}
    /\ mem = mem0
    /\ covered = {}
    /\ bitCall = BitCallOf("none", "NULL", U32(0), U32(0), NoAccess, mem0)

\* The arguments of RtlInitializeBitMap: every capacity on the caller's
\* buffer, a call without a buffer and a call without a descriptor.
InitArgs ==
    {<<"desc", "buf", size>> : size \in Capacities}
        \cup {<<"desc", "NULL", U32(0)>>, <<"NULL", "buf", U32(MaxCap)>>}

InitializeBitMap ==
    \E args \in InitArgs :
        LET bitmapPtr == args[1]
            buffer == args[2]
            size == args[3]
        IN
        /\ bitmap' = RtlInitializeBitMap(bitmapPtr, bitmap, buffer, size)
        /\ bitCall' = BitCallOf("RtlInitializeBitMap", bitmapPtr, U32(0), size,
                                NoAccess, mem)
        /\ UNCHANGED <<mem, mem0, covered, timeVars, fileVars>>

SetBits ==
    \E args \in BitArgs :
        LET bitmapPtr == args[1]
            start == args[2]
            count == args[3]
            st == RtlSetBits(bitmapPtr, bitmap, mem, start, count)
        IN  /\ mem' = st.mem
            /\ bitCall' = BitCallOf("RtlSetBits", bitmapPtr, start, count, st, mem)
            /\ covered' =
                  IF /\ bitmapPtr # "NULL" /\ bitmap.Buffer # "NULL"
                     /\ InRange(bitmap.SizeOfBitMap, start, count)
                  THEN covered \cup RangeBits(start, count)
                  ELSE covered
            /\ UNCHANGED <<bitmap, mem0, timeVars, fileVars>>

AreBitsSet ==
    \E args \in BitArgs :
        LET bitmapPtr == args[1]
            start == args[2]
            count == args[3]
            st0 == RtlAreBitsSet(bitmapPtr, bitmap, mem, start, count, {})
        IN  \E st \in WildOutcomes(st0,
                     RtlAreBitsSet(bitmapPtr, bitmap, mem, start, count, AllOnes)) :
            /\ bitCall' = BitCallOf("RtlAreBitsSet", bitmapPtr, start, count, st, mem)
            /\ UNCHANGED <<bitmap, mem, mem0, covered, timeVars, fileVars>>

AreBitsClear ==
    \E args \in BitArgs :
        LET bitmapPtr == args[1]
            start == args[2]
            count == args[3]
            st0 == RtlAreBitsClear(bitmapPtr, bitmap, mem, start, count, {})
        IN  \E st \in WildOutcomes(st0,
                     RtlAreBitsClear(bitmapPtr, bitmap, mem, start, count, AllOnes)) :
            /\ bitCall' = BitCallOf("RtlAreBitsClear", bitmapPtr, start, count, st, mem)
            /\ UNCHANGED <<bitmap, mem, mem0, covered, timeVars, fileVars>>

BitNext ==
    \/ InitializeBitMap
    \/ SetBits
    \/ AreBitsSet
    \/ AreBitsClear

BitmapSpec == BitInit /\ [][BitNext]_vars

BitIdle ==
    /\ bitmap = [SizeOfBitMap |-> U32(0), Buffer |-> "NULL"]
    /\ mem0 = ZeroBuffer
    /\ mem = mem0
    /\ covered = {}
    /\ bitCall = BitCallOf("none", "NULL", U32(0), U32(0), NoAccess, mem0)

TimeInit == BitIdle /\ FileIdle /\ TimeIdle

TimeToSecondsSince1970 ==
    \E arg \in TimeArgs, resultPtr \in {"NULL", "loc"}, before \in ResultBefore :
        LET timePtr == arg[1]
            time == arg[2]
            r == RtlTimeToSecondsSince1970(timePtr, time, resultPtr, before)
        IN  /\ timeCall' = [op |-> "RtlTimeToSecondsSince1970",
                            timePtr |-> timePtr, time |-> time,
                            resultPtr |-> resultPtr, before |-> before,
                            result |-> r.result, ret |-> r.ret]
            /\ UNCHANGED <<bitVars, fileVars>>

TimeNext == TimeToSecondsSince1970

TimeSpec == TimeInit /\ [][TimeNext]_vars

Init ==
    /\ BitIdle
    /\ TimeIdle
    /\ files \in [Handles -> Cursors]
    /\ fileCall = [NoFileCall EXCEPT !.filesBefore = files]

QueryInformationFile ==
    \E args \in QueryArgs :
        /\ \E r \in NtQueryInformationFile(
                     args.handle, args.ioPtr, StaleIo, args.buffer, StaleBuffer,
                     args.length, args.information_class,
                     IF args.handle = "NULL" THEN 0 ELSE files[args.handle]) :
            /\ files' = IF args.handle = "NULL" THEN files
                        ELSE [files EXCEPT ![args.handle] = r.cursor]
            /\ fileCall' = [op |-> "NtQueryInformationFile",
                            handle |-> args.handle, ioPtr |-> args.ioPtr,
                            buffer |-> args.buffer, length |-> args.length,
                            information_class |-> args.information_class,
                            ret |-> r.ret, io |-> r.io, info |-> r.info,
                            calls |-> r.calls, filesBefore |-> files]
            /\ UNCHANGED <<bitVars, timeVars>>

Next == QueryInformationFile

Spec == Init /\ [][Next]_vars

(***************************************************************************)
(* Claims about the BitmapRunEngine, checked under BitmapSpec.             *)
(***************************************************************************)
RangeCallOps == {"RtlSetBits", "RtlAreBitsSet", "RtlAreBitsClear"}

\* The last call was a range call on the descriptor.
OnDescriptor == bitCall.op \in RangeCallOps /\ bitCall.bitmap = "desc"

\* C4: on a bitmap of capacity C, a call whose range is empty (count = 0),
\* starts at or beyond C, or ends beyond C (start + count taken as a
\* mathematical sum, so also when the 32-bit sum wraps around) changes no
\* word of the buffer and no guard word around it when it is RtlSetBits, and
\* returns FALSE when it is RtlAreBitsSet or RtlAreBitsClear; and no call,
\* accepted or not, reads or writes a bit index >= C.
C4_RejectedRangeIsNoOp ==
    OnDescriptor =>
        /\ ~InRange(bitmap.SizeOfBitMap, bitCall.start, bitCall.count) =>
              /\ mem = bitCall.before
              /\ bitCall.result = FALSE
        /\ \A b \in bitCall.touched : NatLess(b, bitmap.SizeOfBitMap)
        /\ ~bitCall.wild

\* C4 witness: RtlSetBits on a buffer that already holds set bits, with a
\* start inside the capacity and a count so large that the 32-bit sum
\* start + count wraps around to a value within the capacity.
C4_Witness ==
    /\ bitCall.op = "RtlSetBits" /\ bitCall.bitmap = "desc"
    /\ bitmap.Buffer = "buf"
    /\ covered # {}
    /\ bitCall.count # U32(0)
    /\ NatLess(bitCall.start, bitmap.SizeOfBitMap)
    /\ NatLeq(NatAdd(bitCall.start, bitCall.count), bitmap.SizeOfBitMap)
    /\ ~InRange(bitmap.SizeOfBitMap, bitCall.start, bitCall.count)

\* The last call's range had no bit that an accepted RtlSetBits had set.
Untouched == RangeBits(bitCall.start, bitCall.count) \cap covered = {}

\* The step is RtlAreBitsSet(start, count) right after RtlSetBits(start,
\* count) on the same descriptor.
SetThenTest ==
    /\ bitCall.op = "RtlSetBits" /\ bitCall.bitmap = "desc"
    /\ bitCall'.op = "RtlAreBitsSet" /\ bitCall'.bitmap = "desc"
    /\ bitCall'.start = bitCall.start
    /\ bitCall'.count = bitCall.count
    /\ bitmap.Buffer = "buf"

\* C5 (as amended): on a bitmap of capacity C initialised over a buffer
\* whose words were zero, for every start and count with count > 0 and
\* start + count <= C: RtlAreBitsClear(start, count) returns TRUE as long as
\* no accepted RtlSetBits range has touched the range, and RtlSetBits(start,
\* count) followed by RtlAreBitsSet(start, count) returns TRUE.
C5_SetThenSetAndUntouchedClear ==
    /\ [](/\ bitCall.op = "RtlAreBitsClear" /\ bitCall.bitmap = "desc"
          /\ bitmap.Buffer = "buf"
          /\ mem0 = ZeroBuffer
          /\ InRange(bitmap.SizeOfBitMap, bitCall.start, bitCall.count)
          /\ Untouched
          => bitCall.result = TRUE)
    /\ [][SetThenTest /\ InRange(bitmap.SizeOfBitMap, bitCall.start, bitCall.count)
            => bitCall'.result = TRUE]_vars

\* C5 witness: RtlAreBitsSet has just returned TRUE for a range that spans
\* the two words of the buffer.
C5_Witness ==
    /\ bitCall.op = "RtlAreBitsSet" /\ bitCall.bitmap = "desc"
    /\ bitCall.result = TRUE
    /\ mem0 = ZeroBuffer
    /\ bitCall.start = U32(BitsPerWord - 1)
    /\ bitCall.count = U32(2)
    /\ covered = {BitsPerWord - 1, BitsPerWord}

\* C5 as stated, for any start and count with start + count <= C, count = 0
\* included (the caller's buffer taken to start zeroed, in the claim's
\* favour): RtlAreBitsClear on an untouched range returns TRUE, and
\* RtlSetBits followed by RtlAreBitsSet returns TRUE.
C5_AsStated ==
    /\ [](/\ bitCall.op = "RtlAreBitsClear" /\ bitCall.bitmap = "desc"
          /\ bitmap.Buffer = "buf"
          /\ mem0 = ZeroBuffer
          /\ NatLeq(WideSum(bitCall.start, bitCall.count), <<0>> \o bitmap.SizeOfBitMap)
          /\ Untouched
          => bitCall.result = TRUE)
    /\ [][/\ SetThenTest
           /\ mem0 = ZeroBuffer
           /\ NatLeq(WideSum(bitCall.start, bitCall.count), <<0>> \o bitmap.SizeOfBitMap)
           => bitCall'.result = TRUE]_vars

\* C10: after any sequence of RtlSetBits calls on a bitmap whose buffer
\* started all-zero, bit b of the buffer (word b / 32, bit position b % 32,
\* least significant first) is set if and only if b lies in the range of at
\* least one accepted call (count > 0, start < C, start + count <= C); no
\* bit is ever cleared, no bit outside a call's range and no guard word
\* changes.
C10_SetExactlyTheAcceptedRanges ==
    mem0 = ZeroBuffer =>
        /\ \A a \in BufferAddresses : \A q \in 0..(BitsPerWord - 1) :
              q \in mem[a] <=> ((a - 1) * BitsPerWord + q) \in covered
        /\ \A a \in Addresses \ BufferAddresses : mem[a] = GuardWord

\* C10 witness: two accepted calls have set bits in both words, in the
\* first word at both ends, and the bits between them are still clear.
C10_Witness ==
    /\ mem0 = ZeroBuffer
    /\ covered = {0, 1, BitsPerWord - 1, BitsPerWord}
    /\ mem[1] = {0, 1, BitsPerWord - 1}
    /\ mem[2] = {0}

(***************************************************************************)
(* Claims about the TimeConversionUtility, checked under TimeSpec.         *)
(***************************************************************************)
\* The last call passed a tick value and an output location.
TimeCalled == timeCall.op = "RtlTimeToSecondsSince1970"
                  /\ timeCall.timePtr # "NULL" /\ timeCall.resultPtr # "NULL"

\* The 64-bit tick value of the last call: the high part's 32 bits, then the
\* low part's.
TicksOf(call) == LongToULong(call.time.HighPart) \o call.time.LowPart

\* 116,444,736,000,000,000 = 0x019DB1DED53E8000
EpochThreshold == <<0, 1, 9, 13, 11, 1, 13, 14, 13, 5, 3, 14, 8, 0, 0, 0>>

\* 2^32 * 10,000,000 ticks: the first second count that does not fit.
TwoTo32Seconds == NatMulSmall(<<0, 0, 0, 0, 0, 0, 0, 1>> \o Zero32, 10000000)

\* seconds * 10,000,000 + 116,444,736,000,000,000
EncodeSeconds(seconds) == NatAdd(NatMulSmall(Widen(seconds), 10000000), EpochThreshold)

\* C6: for every 64-bit tick value t formed from the low and high parts as
\* an unsigned quantity, the call succeeds exactly when t is at least
\* 116,444,736,000,000,000 and floor((t - 116,444,736,000,000,000) /
\* 10,000,000) <= 0xFFFFFFFF (that is, t - threshold < 2^32 * 10,000,000);
\* on success the seconds s returned satisfy s * 10,000,000 + threshold <= t
\* < s * 10,000,000 + threshold + 10,000,000 (t truncated to a whole
\* second); on failure the output location keeps its previous value.
C6_SecondsSince1970 ==
    TimeCalled =>
        LET t == TicksOf(timeCall)
        IN  /\ timeCall.ret <=>
                  /\ NatLeq(EpochThreshold, t)
                  /\ NatLess(NatSub(t, EpochThreshold), TwoTo32Seconds)
            /\ timeCall.ret =>
                  /\ NatLeq(EncodeSeconds(timeCall.result), t)
                  /\ NatLess(NatSub(t, EncodeSeconds(timeCall.result)),
                             Widen(U32(10000000)))
            /\ ~timeCall.ret => timeCall.result = timeCall.before

\* C6 witness: the call succeeded on the last tick whose seconds fit in 32
\* bits' neighbourhood: a tick value with the high word 0x0236485D and a
\* non-zero sub-second part, over an output location that held another
\* value.
C6_Witness ==
    /\ TimeCalled
    /\ timeCall.ret
    /\ timeCall.time.HighPart = 37111901
    /\ timeCall.time.LowPart = <<13, 5, 3, 14, 8, 0, 0, 1>>
    /\ timeCall.result # timeCall.before

(***************************************************************************)
(* Claims about the FileInfoQueryEngine, checked under Spec.               *)
(***************************************************************************)
\* The last step was a call with a status block.
FileCalled == fileCall.op = "NtQueryInformationFile" /\ fileCall.ioPtr # "NULL"

NullArgument == fileCall.handle = "NULL" \/ fileCall.buffer = "NULL"

TwoTierClasses ==
    {"FileBasicInformation", "FileStandardInformation", "FileAttributeTagInformation"}

FixedSizeClasses == TwoTierClasses \cup {"FilePositionInformation"}

\* The last call reached the handler of a two-tier class.
ReachedTwoTierHandler ==
    /\ FileCalled /\ ~NullArgument
    /\ fileCall.information_class \in TwoTierClasses
    /\ fileCall.length >= SizeofClass(fileCall.information_class)

\* The host errors that mean the modern query is unavailable.
UnavailableErrors ==
    {"ERROR_CALL_NOT_IMPLEMENTED", "ERROR_INVALID_FUNCTION", "ERROR_NOT_SUPPORTED"}

\* The StatusTranslator's table as the specification lists it, for the
\* errors the host reports here; any other error is "unsuccessful".
StatusTranslatorImage(error) ==
    LET table == [ERROR_CALL_NOT_IMPLEMENTED |-> "STATUS_NOT_IMPLEMENTED",
                  ERROR_INVALID_FUNCTION |-> "STATUS_INVALID_DEVICE_REQUEST",
                  ERROR_NOT_SUPPORTED |-> "STATUS_NOT_SUPPORTED",
                  ERROR_ACCESS_DENIED |-> "STATUS_ACCESS_DENIED",
                  ERROR_INVALID_HANDLE |-> "STATUS_INVALID_HANDLE",
                  ERROR_MORE_DATA |-> "STATUS_BUFFER_OVERFLOW",
                  ERROR_BUFFER_OVERFLOW |-> "STATUS_BUFFER_OVERFLOW"]
    IN  IF error \in DOMAIN table THEN table[error] ELSE "STATUS_UNSUCCESSFUL"

\* C1: a call of class Basic, Standard or AttributeTag that reaches its
\* handler makes the modern host query first and exactly once; it makes the
\* legacy whole-file query if and only if the modern query failed with
\* call-not-implemented, invalid-function or not-supported, at most once and
\* after the modern query; for any other modern error it returns the
\* translation of that error, and when the legacy query fails it returns
\* the translation of the legacy error.
C1_LegacyOnlyWhenModernUnavailable ==
    ReachedTwoTierHandler =>
        LET calls == fileCall.calls
        IN  /\ Len(calls) \in {1, 2}
            /\ calls[1].api = "GetFileInformationByHandleEx"
            /\ \A i \in 2..Len(calls) : calls[i].api = "GetFileInformationByHandle"
            /\ Len(calls) = 2 <=> (~calls[1].ok /\ calls[1].error \in UnavailableErrors)
            /\ (~calls[1].ok /\ calls[1].error \notin UnavailableErrors)
                  => fileCall.ret = StatusTranslatorImage(calls[1].error)
            /\ (Len(calls) = 2 /\ ~calls[2].ok)
                  => fileCall.ret = StatusTranslatorImage(calls[2].error)

\* C1 witness: a Standard query whose modern query failed with
\* invalid-function and whose legacy query then failed with access-denied,
\* which the call returned.
C1_Witness ==
    /\ ReachedTwoTierHandler
    /\ fileCall.information_class = "FileStandardInformation"
    /\ Len(fileCall.calls) = 2
    /\ fileCall.calls[1].error = "ERROR_INVALID_FUNCTION"
    /\ fileCall.calls[2].error = "ERROR_ACCESS_DENIED"
    /\ fileCall.ret = "STATUS_ACCESS_DENIED"

\* The last call failed after its FileNameInfo host query reported an
\* overflow error.
NameOverflow ==
    /\ FileCalled
    /\ fileCall.information_class = "FileNameInformation"
    /\ Len(fileCall.calls) = 1
    /\ fileCall.ret = "STATUS_BUFFER_OVERFLOW"

\* The total length a name query needs: the prefix and the full name.
RequiredLength == SizeofULong + fileCall.calls[1].data.FullLength

\* C2: every failing call with a status block stores its status in the
\* block, and leaves the block's Information at 0, except when a name query
\* overflowed, where Information holds the required length.
C2_FailureSetsStatusAndZeroBytes ==
    (FileCalled /\ fileCall.ret # "STATUS_SUCCESS") =>
        /\ fileCall.io.Status = fileCall.ret
        /\ fileCall.io.Information = IF NameOverflow THEN RequiredLength ELSE 0

\* The last call was a name query that reached the host and failed.
NameQueryFailed ==
    /\ FileCalled /\ ~NullArgument
    /\ fileCall.information_class = "FileNameInformation"
    /\ fileCall.length >= SizeofULong
    /\ fileCall.ret # "STATUS_SUCCESS"

\* C7: a name query into a buffer that holds the length prefix but not the
\* name, which the host fails with an overflow error, returns
\* buffer-overflow with Information = 4 + the full length of the name,
\* whatever the host left in the buffer; any other failing name query
\* leaves Information at 0.
C7_OverflowReportsRequiredLength ==
    NameQueryFailed =>
        IF fileCall.calls[1].error \in {"ERROR_MORE_DATA", "ERROR_BUFFER_OVERFLOW"}
        THEN /\ fileCall.ret = "STATUS_BUFFER_OVERFLOW"
             /\ fileCall.io.Information = 4 + fileCall.calls[1].data.FullLength
        ELSE fileCall.io.Information = 0

\* C3: with a null handle or a null buffer the call returns
\* invalid-parameter, whatever the class and the length; otherwise with a
\* fixed-size class and a length below the structure's size it returns
\* info-length-mismatch; otherwise with a class that has no handler it
\* returns invalid-info-class; and in each of these cases it makes no host
\* call and the caller's buffer holds what it held before.
C3_ValidationOrder ==
    FileCalled =>
        LET short == /\ fileCall.information_class \in FixedSizeClasses
                     /\ fileCall.length < SizeofClass(fileCall.information_class)
            unknown == fileCall.information_class
                          \notin FixedSizeClasses \cup {"FileNameInformation"}
        IN  /\ NullArgument => fileCall.ret = "STATUS_INVALID_PARAMETER"
            /\ (~NullArgument /\ short) => fileCall.ret = "STATUS_INFO_LENGTH_MISMATCH"
            /\ (~NullArgument /\ unknown) => fileCall.ret = "STATUS_INVALID_INFO_CLASS"
            /\ (NullArgument \/ short \/ unknown) =>
                  /\ fileCall.calls = <<>>
                  /\ fileCall.info = StaleBuffer

\* C3 witness: a Basic query with a null handle and a length one byte
\* short, which returned invalid-parameter and not info-length-mismatch.
C3_Witness ==
    /\ FileCalled
    /\ fileCall.handle = "NULL" /\ fileCall.buffer = "buf"
    /\ fileCall.information_class = "FileBasicInformation"
    /\ fileCall.length = SizeofBasic - 1
    /\ fileCall.ret = "STATUS_INVALID_PARAMETER"
    /\ fileCall.calls = <<>>

\* The last call succeeded through the legacy query.
ViaLegacy ==
    /\ FileCalled
    /\ fileCall.ret = "STATUS_SUCCESS"
    /\ Len(fileCall.calls) = 2

\* The 64 bits of a LARGE_INTEGER: the high part's 32 bits, then the low
\* part's.
QuadPart(li) == LongToULong(li.HighPart) \o li.LowPart

\* Bit 4 (0x10) of the attribute flags.
DirectoryBit(attributes) == (IntOfNat(attributes) \div 16) % 2 = 1

\* C8: when a query succeeds through the legacy query, with legacy the
\* record that query returned: for AttributeTag, ReparseTag = 0 and
\* FileAttributes = the legacy attributes; for Standard, AllocationSize =
\* EndOfFile = the legacy 64-bit size (high word, low word), NumberOfLinks =
\* the legacy link count and Directory holds exactly when the legacy
\* directory bit is set; for Basic, ChangeTime = LastWriteTime = the legacy
\* last-write time; and on the legacy path as on the modern path a
\* successful query of these classes reports the structure's size.
C8_LegacyDerivedOutputs ==
    /\ ViaLegacy =>
          LET legacy == fileCall.calls[2].data
              info == fileCall.info
          IN  /\ fileCall.information_class = "FileAttributeTagInformation" =>
                    /\ info.ReparseTag = U32(0)
                    /\ info.FileAttributes = legacy.dwFileAttributes
              /\ fileCall.information_class = "FileStandardInformation" =>
                    /\ info.AllocationSize = info.EndOfFile
                    /\ QuadPart(info.EndOfFile)
                          = legacy.nFileSizeHigh \o legacy.nFileSizeLow
                    /\ info.NumberOfLinks = legacy.nNumberOfLinks
                    /\ info.Directory <=> DirectoryBit(legacy.dwFileAttributes)
              /\ fileCall.information_class = "FileBasicInformation" =>
                    /\ info.ChangeTime = info.LastWriteTime
                    /\ QuadPart(info.LastWriteTime)
                          = legacy.ftLastWriteTime.dwHighDateTime
                                \o legacy.ftLastWriteTime.dwLowDateTime
    /\ (/\ FileCalled
        /\ fileCall.ret = "STATUS_SUCCESS"
        /\ fileCall.information_class \in TwoTierClasses)
          => fileCall.io.Information = SizeofClass(fileCall.information_class)

\* C8 witness: a Basic query that succeeded through the legacy query on a
\* record whose creation and last-write times differ and whose last-write
\* time has the top bit of its high word set.
C8_Witness ==
    /\ ViaLegacy
    /\ fileCall.information_class = "FileBasicInformation"
    /\ fileCall.calls[2].data.ftLastWriteTime = FileTimeFar
    /\ fileCall.info.ChangeTime.HighPart < 0
    /\ fileCall.info.CreationTime # fileCall.info.ChangeTime
    /\ fileCall.io.Information = SizeofBasic

\* C9: after a Position query, successful or not, every handle's cursor is
\* where it was before the call, and a successful query reports the cursor
\* of its handle.
C9_PositionQueryKeepsCursor ==
    (FileCalled /\ fileCall.information_class = "FilePositionInformation") =>
        /\ files = fileCall.filesBefore
        /\ fileCall.ret = "STATUS_SUCCESS" =>
              fileCall.info.CurrentByteOffset = fileCall.filesBefore[fileCall.handle]

\* C9 witness: a successful Position query on a handle whose cursor is not
\* at the start of the file, while the other handle's is.
C9_Witness ==
    /\ FileCalled
    /\ fileCall.information_class = "FilePositionInformation"
    /\ fileCall.ret = "STATUS_SUCCESS"
    /\ fileCall.handle = "h1"
    /\ files["h1"] # 0 /\ files["h2"] = 0
    /\ fileCall.info.CurrentByteOffset = files["h1"]
====
